---- MODULE Spec2Model ----
(***************************************************************************)
(* Model of flatdir.flatten_dir (src/flatdir.py): the bounded recursive    *)
(* walk that copies the plain files of a directory tree into one output    *)
(* directory.                                                              *)
(*                                                                         *)
(* The file system is a fixed tree of directories (flatten_dir never       *)
(* creates or removes a directory) and a function fs from the paths of     *)
(* the plain files that exist to their bytes.  A path is the sequence of   *)
(* its components.  Directory names and file names are drawn from the same *)
(* set, so that a target path outdir/name can be a directory.              *)
(*                                                                         *)
(* One action is one iteration of the loop of flatten_dir (or one call /   *)
(* return).  The recursion is the variable stack: one frame per active     *)
(* call, the last frame being the running one.                             *)
(***************************************************************************)
EXTENDS Integers, Sequences, FiniteSets, TLC

\* ------------------------------------------------------------------ bounds
\* recursions_left of the top-level call ranges over -MaxN .. MaxN
MaxN == 2

\* --------------------------------------------------------- the file system
Names == {"a", "b"}

\* the directories of the tree: /, /a, /a/b, /b
Dirs == {<<>>, <<"a">>, <<"a", "b">>, <<"b">>}

\* the paths at which a plain file may exist
FilePaths == {Append(d, n) : d \in Dirs, n \in Names} \ Dirs

\* the byte strings a file may hold at the start
Contents == {<<1>>, <<2>>, <<1, 2>>}

\* an enumeration order of directory entries: a permutation of the names
Perms == {p \in [1..Cardinality(Names) -> Names] : \A i, j \in 1..Cardinality(Names) : p[i] = p[j] => i = j}

NoOrder == <<>>
NoResult == <<>>

VARIABLES
    fs,         \* the plain files that exist: path -> bytes
    indir,      \* arguments of the top-level call
    outdir,
    maxDepth,
    verbose,
    overwrite,
    pc,         \* "idle", "running", "done" (returned), "raised" (exception)
    stack,      \* the frames of the active calls of flatten_dir
    result,     \* the tuple returned by the top-level call, or NoResult
    order,      \* the order in which os.listdir enumerates each directory
    visits,     \* history: the files that reached the `elif path.is_file()` branch
    copies,     \* history: the copies shutil.copy performed
    notes,      \* history: the lines printed
    fs0,        \* history: the file system when the top-level call started
    run,        \* 1 in the first top-level call, 2 in the repeated one
    fs1,        \* history: the file system when the first call returned
    result1     \* history: the result of the first call

vars == <<fs, indir, outdir, maxDepth, verbose, overwrite, pc, stack, result, order, visits, copies, notes, fs0, run, fs1, result1>>

args == <<indir, outdir, maxDepth, verbose, overwrite>>

\* ------------------------------------------------------------- path helpers
\* Path.name
name(path) == path[Len(path)]

\* Path.__truediv__ : dir / name
Join(dir, n) == Append(dir, n)

\* Path.is_dir, Path.is_file, Path.exists on the file system f
is_dir(path) == path \in Dirs

is_file(f, path) == path \in DOMAIN f

exists(f, path) == is_dir(path) \/ is_file(f, path)

\* path.stat().st_size
st_size(f, path) == Len(f[path])

IsPrefix(d, p) == Len(d) <= Len(p) /\ SubSeq(p, 1, Len(d)) = d

\* indir.iterdir(): the entries of dir that exist, in the order perm; the
\* listing is taken once, when the loop starts (os.listdir)
iterdir(f, dir, perm) ==
    LET present(n) == exists(f, Join(dir, n))
        names == SelectSeq(perm, present)
    IN  [i \in 1..Len(names) |-> Join(dir, names[i])]

\* variant of SubBudget: the budget is passed on without being lowered
SubBudgetKept(left) == left

\* the recursion budget passed to a subdirectory: `recursions_left - 1`
SubBudget(left) == left - 1

\* variant of Guard: the budget is spent one level early
GuardOffByOne(dir, out, left) == left <= 0 \/ dir = out

\* variant of Guard: the comparison of the two directories is left out
GuardDepthOnly(dir, out, left) == left < 0

\* `if recursions_left < 0 or indir == outdir: return 0, 0`
Guard(dir, out, left) == left < 0 \/ dir = out

\* variant of SkipFile: the overwrite flag is ignored
SkipFileIgnoresOverwrite(f, outfile, ow) == exists(f, outfile)

\* variant of SkipFile: an existing target is never skipped
SkipFileNever(f, outfile, ow) == FALSE

\* `outfile.exists() and not overwrite`
SkipFile(f, outfile, ow) == exists(f, outfile) /\ ~ow

\* shutil.copy(src, dst): a dst that is a directory stands for dst/basename(src)
CopyDest(path, outfile) == IF is_dir(outfile) THEN Join(outfile, name(path)) ELSE outfile

\* shutil.copy raises SameFileError when source and destination are one file
\* and IsADirectoryError when the destination is a directory
CopyRaises(path, dst) == dst = path \/ is_dir(dst)

\* variant of CopyFile: the bytes are appended to an existing destination
CopyFileAppend(f, path, dst) ==
    [p \in DOMAIN f \cup {dst} |-> IF p = dst THEN (IF dst \in DOMAIN f THEN f[dst] \o f[path] ELSE f[path]) ELSE f[p]]

\* the file system after copying the bytes of path to dst
CopyFile(f, path, dst) == [p \in DOMAIN f \cup {dst} |-> IF p = dst THEN f[path] ELSE f[p]]

\* a new frame: the locals of flatten_dir when its loop starts
Frame(f, dir, left, perm) ==
    [dir |-> dir, left |-> left, todo |-> iterdir(f, dir, perm), n_files |-> 0, n_bytes |-> 0]

\* variant of AddSub: the counts of the recursive call replace the caller's
AddSubAssigned(fr, sub_files, sub_bytes) == [fr EXCEPT !.n_files = sub_files, !.n_bytes = sub_bytes]

\* `n_files += sub_files; n_bytes += sub_bytes`
AddSub(fr, sub_files, sub_bytes) == [fr EXCEPT !.n_files = @ + sub_files, !.n_bytes = @ + sub_bytes]

\* `n_files += 1; n_bytes += path.stat().st_size`
Counted(fr, size) == [fr EXCEPT !.n_files = @ + 1, !.n_bytes = @ + size]

\* the loop moves on to the next entry
Advance(fr) == [fr EXCEPT !.todo = Tail(@)]

top == stack[Len(stack)]

\* the stack with its running frame replaced by fr
SetTop(fr) == [stack EXCEPT ![Len(stack)] = fr]

\* the line printed for a copy
Printed(outfile) == IF verbose THEN Append(notes, outfile) ELSE notes

\* ------------------------------------------------------------------- Init
Init ==
    /\ fs \in UNION {[S -> Contents] : S \in SUBSET FilePaths}
    /\ indir \in Dirs
    /\ outdir \in Dirs
    /\ maxDepth \in (-MaxN)..MaxN
    /\ verbose \in BOOLEAN
    /\ overwrite \in BOOLEAN
    /\ pc = "idle"
    /\ stack = <<>>
    /\ result = NoResult
    /\ order = [d \in Dirs |-> NoOrder]
    /\ visits = <<>>
    /\ copies = <<>>
    /\ notes = <<>>
    /\ fs0 = fs
    /\ run = 1
    /\ fs1 = fs
    /\ result1 = NoResult

\* ---------------------------------------------------------------- actions
\* The order in which a directory is enumerated is not specified: it is
\* chosen freely among all orders when the directory is listed for the first
\* time, and a later listing of the same directory follows the same order.
\* An I/O error of the environment may make any copy fail; it is taken to be
\* found when the files are opened, before a byte is written.
\* the top-level call passes the guard and lists indir
Start ==
    /\ pc = "idle"
    /\ ~Guard(indir, outdir, maxDepth)
    /\ \E perm \in Perms :
        /\ order[indir] \in {NoOrder, perm}
        /\ order' = [order EXCEPT ![indir] = perm]
        /\ stack' = <<Frame(fs, indir, maxDepth, perm)>>
    /\ pc' = "running"
    /\ UNCHANGED <<fs, args, result, visits, copies, notes, fs0, run, fs1, result1>>

\* the top-level call is stopped by the guard: return 0, 0
StartNoop ==
    /\ pc = "idle"
    /\ Guard(indir, outdir, maxDepth)
    /\ pc' = "done"
    /\ result' = <<0, 0>>
    /\ UNCHANGED <<fs, args, stack, order, visits, copies, notes, fs0, run, fs1, result1>>

\* the next entry is a subdirectory and the recursive call passes the guard
Recurse ==
    /\ pc = "running"
    /\ top.todo # <<>>
    /\ LET path == Head(top.todo) IN
        /\ is_dir(path)
        /\ ~Guard(path, outdir, SubBudget(top.left))
        /\ \E perm \in Perms :
            /\ order[path] \in {NoOrder, perm}
            /\ order' = [order EXCEPT ![path] = perm]
            /\ stack' = Append(SetTop(Advance(top)), Frame(fs, path, SubBudget(top.left), perm))
    /\ UNCHANGED <<fs, args, pc, result, visits, copies, notes, fs0, run, fs1, result1>>

\* the next entry is a subdirectory and the recursive call returns 0, 0 at once
RecurseNoop ==
    /\ pc = "running"
    /\ top.todo # <<>>
    /\ LET path == Head(top.todo) IN
        /\ is_dir(path)
        /\ Guard(path, outdir, SubBudget(top.left))
        /\ stack' = SetTop(AddSub(Advance(top), 0, 0))
    /\ UNCHANGED <<fs, args, pc, result, order, visits, copies, notes, fs0, run, fs1, result1>>

\* the next entry is a file whose target exists and overwrite is off: continue
Skip ==
    /\ pc = "running"
    /\ top.todo # <<>>
    /\ LET path == Head(top.todo)
           outfile == Join(outdir, name(path))
       IN
        /\ ~is_dir(path)
        /\ is_file(fs, path)
        /\ SkipFile(fs, outfile, overwrite)
        /\ visits' = Append(visits, path)
        /\ stack' = SetTop(Advance(top))
    /\ UNCHANGED <<fs, args, pc, result, order, copies, notes, fs0, run, fs1, result1>>

\* the next entry is a file and it is copied
Copy ==
    /\ pc = "running"
    /\ top.todo # <<>>
    /\ LET path == Head(top.todo)
           outfile == Join(outdir, name(path))
           dst == CopyDest(path, outfile)
       IN
        /\ ~is_dir(path)
        /\ is_file(fs, path)
        /\ ~SkipFile(fs, outfile, overwrite)
        /\ ~CopyRaises(path, dst)
        /\ visits' = Append(visits, path)
        /\ notes' = Printed(outfile)
        /\ fs' = CopyFile(fs, path, dst)
        /\ copies' = Append(copies, [src |-> path, dst |-> dst, bytes |-> fs[path]])
        /\ stack' = SetTop(Counted(Advance(top), st_size(fs', path)))
    /\ UNCHANGED <<args, pc, result, order, fs0, run, fs1, result1>>

\* variant of CopyFail: the exception is caught and the loop goes on
CopyFailCaught ==
    /\ pc = "running"
    /\ top.todo # <<>>
    /\ LET path == Head(top.todo)
           outfile == Join(outdir, name(path))
       IN
        /\ ~is_dir(path)
        /\ is_file(fs, path)
        /\ ~SkipFile(fs, outfile, overwrite)
        /\ visits' = Append(visits, path)
        /\ notes' = Printed(outfile)
    /\ stack' = SetTop(Advance(top))
    /\ UNCHANGED <<fs, args, pc, result, order, copies, fs0, run, fs1, result1>>

\* the next entry is a file and shutil.copy raises (SameFileError,
\* IsADirectoryError, or an I/O error of the environment found when the files
\* are opened); nothing in flatten_dir or main catches it
CopyFail ==
    /\ pc = "running"
    /\ top.todo # <<>>
    /\ LET path == Head(top.todo)
           outfile == Join(outdir, name(path))
       IN
        /\ ~is_dir(path)
        /\ is_file(fs, path)
        /\ ~SkipFile(fs, outfile, overwrite)
        /\ visits' = Append(visits, path)
        /\ notes' = Printed(outfile)
    /\ pc' = "raised"
    /\ stack' = <<>>
    /\ UNCHANGED <<fs, args, result, order, copies, fs0, run, fs1, result1>>

\* a recursive call returns: the caller adds sub_files and sub_bytes
ReturnSub ==
    /\ pc = "running"
    /\ top.todo = <<>>
    /\ Len(stack) > 1
    /\ LET caller == stack[Len(stack) - 1]
           rest == SubSeq(stack, 1, Len(stack) - 2)
       IN  stack' = Append(rest, AddSub(caller, top.n_files, top.n_bytes))
    /\ UNCHANGED <<fs, args, pc, result, order, visits, copies, notes, fs0, run, fs1, result1>>

\* the top-level call returns n_files, n_bytes
ReturnTop ==
    /\ pc = "running"
    /\ top.todo = <<>>
    /\ Len(stack) = 1
    /\ result' = <<top.n_files, top.n_bytes>>
    /\ pc' = "done"
    /\ stack' = <<>>
    /\ UNCHANGED <<fs, args, order, visits, copies, notes, fs0, run, fs1, result1>>

\* the caller runs flatten_dir a second time with the same arguments
Rerun ==
    /\ pc = "done"
    /\ run = 1
    /\ run' = 2
    /\ fs1' = fs
    /\ result1' = result
    /\ fs0' = fs
    /\ pc' = "idle"
    /\ result' = NoResult
    /\ visits' = <<>>
    /\ copies' = <<>>
    /\ notes' = <<>>
    /\ UNCHANGED <<fs, args, stack, order>>

Step == Start \/ StartNoop \/ Recurse \/ RecurseNoop \/ Skip \/ Copy \/ CopyFail \/ ReturnSub \/ ReturnTop

Next == Step

Spec == Init /\ [][Next]_vars

NextTwice == Step \/ Rerun

SpecTwice == Init /\ [][NextTwice]_vars

TypeOK ==
    /\ DOMAIN fs \subseteq FilePaths
    /\ pc \in {"idle", "running", "done", "raised"}
    /\ (pc = "running") <=> (stack # <<>>)
    /\ run \in {1, 2}

\* ======================================================================
\* Definitions used to state the properties
\* ======================================================================
RECURSIVE SumFiles(_), SumBytes(_), CopiedBytes(_)

\* n_files and n_bytes added over the frames of the active calls
SumFiles(st) == IF st = <<>> THEN 0 ELSE st[Len(st)].n_files + SumFiles(SubSeq(st, 1, Len(st) - 1))

SumBytes(st) == IF st = <<>> THEN 0 ELSE st[Len(st)].n_bytes + SumBytes(SubSeq(st, 1, Len(st) - 1))

\* the sizes of the copied files added over a sequence of copies
CopiedBytes(cs) == IF cs = <<>> THEN 0 ELSE Len(cs[Len(cs)].bytes) + CopiedBytes(SubSeq(cs, 1, Len(cs) - 1))

\* the running total of the traversal: the frames' counters, or the result
TotalFiles == IF pc = "done" THEN result[1] ELSE SumFiles(stack)

TotalBytes == IF pc = "done" THEN result[2] ELSE SumBytes(stack)

\* how often x occurs in seq
Count(seq, x) == Cardinality({i \in 1..Len(seq) : seq[i] = x})

\* nesting depth of the file p below indir: 0 for a file directly in indir
Depth(p) == Len(p) - Len(indir) - 1

\* the files that existed at the call, below indir, within maxDepth levels
WithinDepth == {p \in DOMAIN fs0 : IsPrefix(indir, p) /\ Depth(p) <= maxDepth}

\* the way from indir down to p goes through outdir (p is in outdir or below)
BehindOutdir(p) == IsPrefix(indir, outdir) /\ IsPrefix(outdir, p)

\* the files within maxDepth that the walk reaches without entering outdir
Eligible == {p \in WithinDepth : ~BehindOutdir(p)}

RECURSIVE SizeSum(_)
\* the sizes, at the call, of a set of files added up
SizeSum(S) == IF S = {} THEN 0 ELSE LET p == CHOOSE q \in S : TRUE IN Len(fs0[p]) + SizeSum(S \ {p})

\* the target path of a source file
Target(p) == Join(outdir, name(p))

C4_SelfCopyGuard ==
    indir = outdir =>
        /\ pc \in {"idle", "done"}
        /\ stack = <<>>
        /\ order = [d \in Dirs |-> NoOrder]
        /\ visits = <<>> /\ copies = <<>> /\ notes = <<>>
        /\ fs = fs0
        /\ pc = "done" => result = <<0, 0>>

\* a returned self-copy call with a positive budget on a directory with a file
C4_Witness ==
    /\ pc = "done"
    /\ indir = outdir
    /\ maxDepth > 0
    /\ overwrite
    /\ \E n \in Names : is_file(fs, Join(indir, n))
    /\ result = <<0, 0>>

\* ======================================================================
\* C2  skip policy
\* ======================================================================
\* C2: in every loop iteration that visits a file whose target outdir/name
\* is an existing plain file and that does not end in an exception, with
\* overwrite off the file system and the counters are unchanged and no copy
\* is recorded; with overwrite on the target holds the bytes of the source
\* afterwards and the counters grow by 1 file and the size of the source.
C2_SkipPolicy ==
    [][ (pc = "running" /\ pc' = "running" /\ Len(visits') = Len(visits) + 1) =>
            LET path == visits'[Len(visits')]
                outfile == Target(path)
            IN  is_file(fs, outfile) =>
                    IF overwrite
                    THEN /\ fs'[outfile] = fs[path]
                         /\ Len(copies') = Len(copies) + 1
                         /\ SumFiles(stack') = SumFiles(stack) + 1
                         /\ SumBytes(stack') = SumBytes(stack) + Len(fs[path])
                    ELSE /\ fs' = fs
                         /\ copies' = copies
                         /\ notes' = notes
                         /\ SumFiles(stack') = SumFiles(stack)
                         /\ SumBytes(stack') = SumBytes(stack)
      ]_vars

\* a returned call without overwrite that visited a file whose target held
\* other bytes: the target still holds them and the file was not counted
C2_Witness ==
    /\ pc = "done"
    /\ ~overwrite
    /\ \E i \in 1..Len(visits) :
        /\ is_file(fs0, Target(visits[i]))
        /\ fs0[Target(visits[i])] # fs0[visits[i]]
        /\ fs[Target(visits[i])] = fs0[Target(visits[i])]
    /\ result[1] < Len(visits)

\* ======================================================================
\* C3  aggregate
\* ======================================================================
\* C3: while the traversal runs and when it has returned, the files counted
\* over all recursion levels are exactly the copies performed and the bytes
\* counted are the sum of the sizes of the copied files; and no step of a
\* traversal that goes on lowers either total.
C3_Aggregate ==
    /\ [](pc \in {"running", "done"} =>
            /\ TotalFiles = Len(copies)
            /\ TotalBytes = CopiedBytes(copies))
    /\ [][ (pc = "running" /\ pc' \in {"running", "done"}) =>
            /\ TotalFiles' >= TotalFiles
            /\ TotalBytes' >= TotalBytes ]_vars

\* a returned call that copied three files, of sizes 1, 1 and 2 or 1, 2 and
\* 2, from more than one nesting level, and left a file unvisited
C3_Witness ==
    /\ pc = "done"
    /\ result[1] = 3
    /\ result[2] \in {4, 5}
    /\ \E i, j \in 1..Len(copies) : Depth(copies[i].src) # Depth(copies[j].src)
    /\ \E p \in DOMAIN fs0 : Count(visits, p) = 0

VisitsOf(n) == {i \in 1..Len(visits) : name(visits[i]) = n}

Min(S) == CHOOSE i \in S : \A j \in S : i <= j

Max(S) == CHOOSE i \in S : \A j \in S : i >= j

\* C6: when a call has returned, for every name whose target outdir/name
\* did not exist before the call and under which files were visited: without
\* overwrite the target holds the bytes of the file visited first, that file
\* is the only one of them that was copied, and with overwrite the target
\* holds the bytes of the file visited last; whatever the enumeration order.
C6_Collisions ==
    pc = "done" =>
        \A n \in Names :
            (~exists(fs0, Join(outdir, n)) /\ VisitsOf(n) # {}) =>
                /\ is_file(fs, Join(outdir, n))
                /\ IF overwrite
                   THEN fs[Join(outdir, n)] = fs0[visits[Max(VisitsOf(n))]]
                   ELSE /\ fs[Join(outdir, n)] = fs0[visits[Min(VisitsOf(n))]]
                        /\ \A i \in 1..Len(copies) :
                             name(copies[i].src) = n => copies[i].src = visits[Min(VisitsOf(n))]
                        /\ Count([i \in 1..Len(copies) |-> name(copies[i].src)], n) = 1

\* a returned call that visited two files of one name and different bytes
\* whose target did not exist, the first one in a subdirectory
C6_Witness ==
    /\ pc = "done"
    /\ \E i, j \in 1..Len(visits) :
        /\ i < j
        /\ name(visits[i]) = name(visits[j])
        /\ fs0[visits[i]] # fs0[visits[j]]
        /\ Depth(visits[i]) > Depth(visits[j])
        /\ ~exists(fs0, Target(visits[i]))
        /\ fs[Target(visits[i])] = fs0[visits[IF overwrite THEN j ELSE i]]

C8_FailureSemantics ==
    /\ [][ ( /\ pc = "running"
             /\ Len(visits') = Len(visits) + 1
             /\ copies' = copies
             /\ ~(exists(fs, Target(visits'[Len(visits')])) /\ ~overwrite) ) =>
                (pc' = "raised" /\ fs' = fs) ]_vars
    /\ [](pc = "raised" => (result = NoResult /\ stack = <<>>))
    /\ [][pc # "raised"]_vars

\* an exception raised one level down after a copy had been performed, with
\* a file within reach that was never visited
C8_Witness ==
    /\ pc = "raised"
    /\ result = NoResult
    /\ Len(copies) >= 1
    /\ Len(visits) = Len(copies) + 1
    /\ Depth(visits[Len(visits)]) = 1
    /\ \E p \in Eligible : Count(visits, p) = 0

\* ======================================================================
\* C9  frame
\* ======================================================================
\* C9: no step of a call with indir # outdir deletes a file, and the only
\* files a step creates or changes are outdir/name for the name of the source
\* file copied in that step.
C9_Frame ==
    [][ indir # outdir =>
            \A p \in FilePaths :
                /\ is_file(fs, p) => is_file(fs', p)
                /\ (is_file(fs', p) /\ (~is_file(fs, p) \/ fs'[p] # fs[p])) =>
                        /\ Len(copies') = Len(copies) + 1
                        /\ p = Target(copies'[Len(copies')].src)
      ]_vars

\* ======================================================================
\* C10  verbose notifications
\* ======================================================================
\* C10: with verbose on, at every point the lines printed are, one for one
\* and in order, the targets outdir/name of the copies performed; with
\* verbose off nothing is printed.
C10_Notifications ==
    /\ verbose => /\ Len(notes) = Len(copies)
                  /\ \A i \in 1..Len(notes) : notes[i] = Target(copies[i].src)
    /\ ~verbose => notes = <<>>
====
